---- MODULE Spec2Model ----
(***************************************************************************)
(* Mission / step pipeline of database/db_utils.py (class DatabaseUtils). *)
(*                                                                         *)
(* The helpers are static functions that send SQL statements to a shared  *)
(* relational store.  Several workers, each on its own connection, call   *)
(* them concurrently.  A statement sent outside BEGIN..COMMIT is one      *)
(* atomic step of the store; the statements of create_mission_from_       *)
(* proposal run inside one transaction, whose writes are private to the   *)
(* connection until COMMIT and are discarded by ROLLBACK.                 *)
(***************************************************************************)
EXTENDS Integers, Sequences, FiniteSets, TLC

(* ------------------------------ bounds -------------------------------- *)
\* number of mission ids the id generator can hand out
MaxMissions == 2
\* number of step ids the id generator can hand out
MaxSteps == 2
\* last instant of the clock NOW()
MaxTime == 1
\* largest number in an event or in a trigger condition
MaxValue == 2
\* last minute of the clock the trigger rules are evaluated on
MaxMinute == 3

(* --------------------------- fixed domains ---------------------------- *)
Workers == {"sage", "scout"}
Proposals == {"p1"}
NULL == "NULL"
\* SQL NULL of a timestamp column
NoTime == -1

\* proposed_steps as in the example usage of the module, plus an empty list
\* and a template that leaves out 'kind' and 'assigned_to'
ExampleSteps ==
    << [kind |-> "analyze", assigned_to |-> "sage"],
       [kind |-> "execute_trade", assigned_to |-> "scout"] >>
StepLists == { << >>, << [kind |-> NULL, assigned_to |-> NULL] >>, ExampleSteps }

MissionIds == 1 .. MaxMissions
StepIds == 1 .. MaxSteps
Times == 0 .. MaxTime

\* argument values of complete_step
\* (result_data, error)
CompleteArgs == { <<"{ok}", NULL>>, <<"{}", "">>, <<NULL, "boom">> }

VARIABLES
    proposals,    \* ops_trading_proposals: id -> row (status "absent": no row)
    missions,     \* ops_missions, committed rows: id -> row
    steps,        \* ops_mission_steps, committed rows: id -> row
    nextMission,  \* id generator of ops_missions
    nextStep,     \* id generator of ops_mission_steps
    lock,         \* row lock of each proposal: the worker holding it, or NULL
    txn,          \* per worker: uncommitted rows of its open transaction
    pc,           \* per worker: position inside the helper it is running
    local,        \* per worker: local variables of the helper it is running
    now,          \* the clock NOW()
    lastCall,     \* history: the call that returned most recently
    claimTrue,    \* history: per step id, claim_step calls that returned True
    completeTrue, \* history: per step id, complete_step calls that returned True
    queued,       \* the latest get_queued_steps call: its limit and its rows
    rules,        \* ops_trigger_rules: id -> row
    triggered,    \* the latest evaluate_triggers call: event, time, rules
    checked       \* the latest _check_conditions call: arguments and result

\* the read-only helpers' side: what they read apart from the pipeline tables,
\* and what they returned
aux == << queued, rules, triggered, checked >>

\* the mission pipeline's side
pipeline == << proposals, missions, steps, nextMission, nextStep, lock, txn,
               pc, local, now, lastCall, claimTrue, completeTrue >>

vars == << proposals, missions, steps, nextMission, nextStep, lock, txn, pc,
           local, now, lastCall, claimTrue, completeTrue, aux >>

tables == << proposals, missions, steps >>

(* ------------------------------ helpers ------------------------------- *)
\* the open transaction of a connection: when it began and what it wrote
NoTxn == [began |-> NoTime, missions |-> << >>, steps |-> << >>, accepted |-> {}]
NoLocal == [proposal_id |-> NULL, proposed_steps |-> << >>, mission_id |-> 0,
            i |-> 0]
\* a returned call: which helper, on which step id (0 where the helper takes
\* none), and what it returned or raised
NoCall == [op |-> NULL, step |-> 0, ret |-> NULL]
\* no get_queued_steps / evaluate_triggers / _check_conditions call yet
NoQuery == [limit |-> 0, rows |-> << >>]
NoEval == [event |-> << >>, at |-> NoTime, rules |-> {}]
NoCheck == [event |-> << >>, conditions |-> << >>, result |-> NULL]

\* rows of f, then rows of g (insert of new ids)
Merge(f, g) ==
    [k \in (DOMAIN f) \cup (DOMAIN g) |-> IF k \in DOMAIN g THEN g[k] ELSE f[k]]

\* a history counter counts 0, 1, "more than once"
Count(n) == IF n < 2 THEN n + 1 ELSE 2

\* ORDER BY created_at ASC: the ids of S, rows of table f, oldest first
RECURSIVE ByCreatedAt(_, _)
ByCreatedAt(f, S) ==
    IF S = {} THEN << >>
    ELSE LET x == CHOOSE x \in S : \A y \in S : f[x].created_at <= f[y].created_at
         IN << x >> \o ByCreatedAt(f, S \ {x})

StepsOf(m) == {s \in DOMAIN steps : steps[s].mission_id = m}

InitPipeline ==
    /\ proposals \in [Proposals ->
           [status : {"pending", "accepted", "rejected"},
            proposed_steps : StepLists,
            accepted_at : {NoTime}]
           \cup {[status |-> "absent", proposed_steps |-> << >>,
                  accepted_at |-> NoTime]}]
    /\ missions = << >>
    /\ steps = << >>
    /\ nextMission = 1
    /\ nextStep = 1
    /\ lock = [p \in Proposals |-> NULL]
    /\ txn = [w \in Workers |-> NoTxn]
    /\ pc = [w \in Workers |-> "idle"]
    /\ local = [w \in Workers |-> NoLocal]
    /\ now = 0
    /\ lastCall = NoCall
    /\ claimTrue = [s \in StepIds |-> 0]
    /\ completeTrue = [s \in StepIds |-> 0]

Init ==
    /\ InitPipeline
    /\ queued = NoQuery
    /\ rules = << >>
    /\ triggered = NoEval
    /\ checked = NoCheck

\* NOW() advances, up to the instant last
TickUpTo(last) ==
    /\ now < last
    /\ now' = now + 1
    /\ UNCHANGED << proposals, missions, steps, nextMission, nextStep, lock,
                    txn, pc, local, lastCall, claimTrue, completeTrue >>

Tick == TickUpTo(MaxTime)

(* -------------------- create_mission_from_proposal -------------------- *)
\* the WHERE clause without its status test
ProposalMatchesAnyStatus(p) == proposals[p].status # "absent"

\* WHERE id = %s AND status = 'accepted'
ProposalMatches(p) == proposals[p].status = "accepted"

\* step.get('kind', 'analyze')
KindOf(template) == IF template.kind = NULL THEN "analyze" ELSE template.kind

\* column defaults of the schema: the INSERT statements name no status
MissionDefaultStatus == "running"
StepDefaultStatus == "queued"

\* an insert that names the status: succeeded when there is no step to wait for
NewMissionSettled(p) ==
    [proposal_id |-> p,
     status |-> IF proposals[p].proposed_steps = << >>
                THEN "succeeded" ELSE MissionDefaultStatus,
     completed_at |-> NoTime]

\* the row INSERT INTO ops_missions creates
NewMission(p) ==
    [proposal_id |-> p, status |-> MissionDefaultStatus, completed_at |-> NoTime]

\* column defaults of the schema for the two columns get_queued_steps reads:
\* created_at orders the rows as they were inserted, timeout_at is a deadline
\* StepTimeout after the insert
StepTimeout == 1
CreatedAt == nextStep
TimeoutAt == now + StepTimeout

\* the row INSERT INTO ops_mission_steps creates
NewStep(m, template) ==
    [mission_id |-> m, kind |-> KindOf(template), status |-> StepDefaultStatus,
     assigned_to |-> template.assigned_to, started_at |-> NoTime,
     completed_at |-> NoTime, result |-> NULL, error |-> NULL,
     created_at |-> CreatedAt, timeout_at |-> TimeoutAt]

\* db.execute("BEGIN")
cm_begin(w, p) ==
    /\ pc[w] = "idle"
    /\ pc' = [pc EXCEPT ![w] = "cm_select"]
    /\ local' = [local EXCEPT ![w] = [NoLocal EXCEPT !.proposal_id = p]]
    /\ txn' = [txn EXCEPT ![w] = [NoTxn EXCEPT !.began = now]]
    /\ UNCHANGED << proposals, missions, steps, nextMission, nextStep, lock,
                    now, lastCall, claimTrue, completeTrue >>

\* a ROLLBACK that keeps the writes (statements sent outside a transaction)
RolledBackKeeps(table, written) == Merge(table, written)

\* ROLLBACK: what the store keeps of the transaction's writes
RolledBack(table, written) == table

\* COMMIT: what the store keeps of the transaction's writes
Committed(table, written) == Merge(table, written)

\* the except branch: ROLLBACK, log, re-raise
cm_except(w, error) ==
    /\ missions' = RolledBack(missions, txn[w].missions)
    /\ steps' = RolledBack(steps, txn[w].steps)
    /\ proposals' = proposals
    /\ lock' = [p \in Proposals |-> IF lock[p] = w THEN NULL ELSE lock[p]]
    /\ txn' = [txn EXCEPT ![w] = NoTxn]
    /\ pc' = [pc EXCEPT ![w] = "idle"]
    /\ local' = [local EXCEPT ![w] = NoLocal]
    /\ lastCall' = [NoCall EXCEPT !.op = "create_mission_from_proposal",
                                  !.ret = error]
    /\ UNCHANGED << nextMission, nextStep, now, claimTrue, completeTrue >>

\* SELECT ... WHERE id = %s AND status = 'accepted' FOR UPDATE, and the
\* "if not proposal: raise ValueError".  The statement waits while another
\* transaction holds the lock of the matching row.
cm_select(w) ==
    /\ pc[w] = "cm_select"
    /\ LET p == local[w].proposal_id IN
       IF ProposalMatches(p)
       THEN /\ lock[p] \in {NULL, w}
            /\ lock' = [lock EXCEPT ![p] = w]
            /\ pc' = [pc EXCEPT ![w] = "cm_mission"]
            /\ local' = [local EXCEPT
                   ![w].proposed_steps = proposals[p].proposed_steps]
            /\ UNCHANGED << proposals, missions, steps, nextMission, nextStep,
                            txn, now, lastCall, claimTrue, completeTrue >>
       ELSE cm_except(w, "ValueError")

\* INSERT INTO ops_missions ... RETURNING id
cm_insert_mission(w) ==
    /\ pc[w] = "cm_mission"
    /\ nextMission <= MaxMissions
    /\ nextMission' = nextMission + 1
    /\ txn' = [txn EXCEPT ![w].missions =
                  Merge(@, nextMission :> NewMission(local[w].proposal_id))]
    /\ local' = [local EXCEPT ![w].mission_id = nextMission, ![w].i = 1]
    /\ pc' = [pc EXCEPT ![w] = "cm_steps"]
    /\ UNCHANGED << proposals, missions, steps, nextStep, lock, now, lastCall,
                    claimTrue, completeTrue >>

\* a loop that walks the templates from the last to the first
cm_insert_step_reversed(w) ==
    /\ pc[w] = "cm_steps"
    /\ local[w].i <= Len(local[w].proposed_steps)
    /\ nextStep <= MaxSteps
    /\ nextStep' = nextStep + 1
    /\ txn' = [txn EXCEPT ![w].steps =
                  Merge(@, nextStep :> NewStep(local[w].mission_id,
                      local[w].proposed_steps[
                          Len(local[w].proposed_steps) + 1 - local[w].i]))]
    /\ local' = [local EXCEPT ![w].i = @ + 1]
    /\ UNCHANGED << proposals, missions, steps, nextMission, lock, pc, now,
                    lastCall, claimTrue, completeTrue >>

\* one pass of "for step in steps": INSERT INTO ops_mission_steps
cm_insert_step(w) ==
    /\ pc[w] = "cm_steps"
    /\ local[w].i <= Len(local[w].proposed_steps)
    /\ nextStep <= MaxSteps
    /\ nextStep' = nextStep + 1
    /\ txn' = [txn EXCEPT ![w].steps =
                  Merge(@, nextStep :> NewStep(local[w].mission_id,
                                  local[w].proposed_steps[local[w].i]))]
    /\ local' = [local EXCEPT ![w].i = @ + 1]
    /\ UNCHANGED << proposals, missions, steps, nextMission, lock, pc, now,
                    lastCall, claimTrue, completeTrue >>

\* after the loop: UPDATE ops_trading_proposals SET status = 'accepted',
\* accepted_at = NOW() WHERE id = %s
cm_update_proposal(w) ==
    /\ pc[w] = "cm_steps"
    /\ local[w].i > Len(local[w].proposed_steps)
    /\ txn' = [txn EXCEPT ![w].accepted = @ \cup {local[w].proposal_id}]
    /\ pc' = [pc EXCEPT ![w] = "cm_commit"]
    /\ UNCHANGED << proposals, missions, steps, nextMission, nextStep, lock,
                    local, now, lastCall, claimTrue, completeTrue >>

\* db.execute("COMMIT"); return mission_id
cm_commit(w) ==
    /\ pc[w] = "cm_commit"
    /\ missions' = Committed(missions, txn[w].missions)
    /\ steps' = Committed(steps, txn[w].steps)
    /\ proposals' = [p \in Proposals |->
           IF p \in txn[w].accepted
           THEN [proposals[p] EXCEPT !.status = "accepted",
                                     !.accepted_at = txn[w].began]
           ELSE proposals[p]]
    /\ lock' = [p \in Proposals |-> IF lock[p] = w THEN NULL ELSE lock[p]]
    /\ txn' = [txn EXCEPT ![w] = NoTxn]
    /\ pc' = [pc EXCEPT ![w] = "idle"]
    /\ local' = [local EXCEPT ![w] = NoLocal]
    /\ lastCall' = [NoCall EXCEPT !.op = "create_mission_from_proposal",
                                  !.ret = "mission_id"]
    /\ UNCHANGED << nextMission, nextStep, now, claimTrue, completeTrue >>

\* a statement of the transaction raises (storage failure): except branch
cm_raise(w) ==
    /\ pc[w] \in {"cm_select", "cm_mission", "cm_steps", "cm_commit"}
    /\ cm_except(w, "StorageError")

create_mission_from_proposal(w) ==
    \/ \E p \in Proposals : cm_begin(w, p)
    \/ cm_select(w)
    \/ cm_insert_mission(w)
    \/ cm_insert_step(w)
    \/ cm_update_proposal(w)
    \/ cm_commit(w)
    \/ cm_raise(w)

(* ----------------------------- claim_step ----------------------------- *)
\* the WHERE clause without its status test
ClaimMatchesAnyStatus(s) == s \in DOMAIN steps

\* a WHERE clause that also takes a step another caller is running
ClaimMatchesNotDone(s) ==
    s \in DOMAIN steps /\ steps[s].status \in {"queued", "running"}

\* a WHERE clause that also tests the deadline, as the queue query does
ClaimMatchesUnexpired(s) ==
    s \in DOMAIN steps /\ steps[s].status = "queued" /\ steps[s].timeout_at > now

\* WHERE id = %s AND status = 'queued'
ClaimMatches(s) == s \in DOMAIN steps /\ steps[s].status = "queued"

\* UPDATE ops_mission_steps SET status = 'running', assigned_to = %s,
\* started_at = NOW() WHERE ... RETURNING id; return result.rowcount > 0
claim_step(w, s, assigned_to) ==
    /\ pc[w] = "idle"
    /\ IF ClaimMatches(s)
       THEN /\ steps' = [steps EXCEPT ![s].status = "running",
                                      ![s].assigned_to = assigned_to,
                                      ![s].started_at = now]
            /\ claimTrue' = [claimTrue EXCEPT ![s] = Count(@)]
            /\ lastCall' = [NoCall EXCEPT !.op = "claim_step",
                                          !.step = s, !.ret = "True"]
       ELSE /\ UNCHANGED << steps, claimTrue >>
            /\ lastCall' = [NoCall EXCEPT !.op = "claim_step",
                                          !.step = s, !.ret = "False"]
    /\ UNCHANGED << proposals, missions, nextMission, nextStep, lock, txn, pc,
                    local, now, completeTrue >>

(* ---------------------------- complete_step --------------------------- *)
\* the WHERE clause without its status test
CompleteMatchesAnyStatus(s) == s \in DOMAIN steps

\* WHERE id = %s AND status = 'running'
CompleteMatches(s) == s \in DOMAIN steps /\ steps[s].status = "running"

\* truth value of an Optional[str] / Optional[Dict] argument
Truthy(arg) == arg \notin {NULL, "", "{}"}

\* status = 'failed' if error else 'succeeded'
StatusFor(error) == IF Truthy(error) THEN "failed" ELSE "succeeded"

\* result_json = json.dumps(result_data) if result_data else None
ResultJson(result_data) == IF Truthy(result_data) THEN result_data ELSE NULL

\* the count without its status test: every step of the mission
PendingCountAll(m) == Cardinality(StepsOf(m))

\* the count with status = 'running' alone
PendingCountRunning(m) ==
    Cardinality({s \in StepsOf(m) : steps[s].status = "running"})

\* SELECT COUNT(*) ... WHERE mission_id = %s AND status IN ('queued','running')
PendingCount(m) ==
    Cardinality({s \in StepsOf(m) : steps[s].status \in {"queued", "running"}})

\* SET status = 'succeeded' of the mission update
DoneStatus(m) == "succeeded"

\* a step update that goes on to the pending count of the step's mission even
\* when it matched no row
cs_update_step_rechecks(w, s, result_data, error) ==
    /\ pc[w] = "idle"
    /\ IF CompleteMatches(s)
       THEN /\ steps' = [steps EXCEPT ![s].status = StatusFor(error),
                                      ![s].result = ResultJson(result_data),
                                      ![s].error = error,
                                      ![s].completed_at = now]
            /\ pc' = [pc EXCEPT ![w] = "cs_check"]
            /\ local' = [local EXCEPT ![w] =
                   [NoLocal EXCEPT !.mission_id = steps[s].mission_id, !.i = s]]
            /\ UNCHANGED lastCall
       ELSE IF s \in DOMAIN steps
       THEN /\ pc' = [pc EXCEPT ![w] = "cs_check"]
            /\ local' = [local EXCEPT ![w] =
                   [NoLocal EXCEPT !.mission_id = steps[s].mission_id, !.i = s]]
            /\ UNCHANGED << steps, lastCall >>
       ELSE /\ UNCHANGED << steps, pc, local >>
            /\ lastCall' = [NoCall EXCEPT !.op = "complete_step",
                                          !.step = s, !.ret = "False"]
    /\ UNCHANGED << proposals, missions, nextMission, nextStep, lock, txn, now,
                    claimTrue, completeTrue >>

\* UPDATE ops_mission_steps SET status, result, error, completed_at
\* WHERE id = %s AND status = 'running' RETURNING mission_id;
\* "if db_result.rowcount == 0: return False"
cs_update_step(w, s, result_data, error) ==
    /\ pc[w] = "idle"
    /\ IF CompleteMatches(s)
       THEN /\ steps' = [steps EXCEPT ![s].status = StatusFor(error),
                                      ![s].result = ResultJson(result_data),
                                      ![s].error = error,
                                      ![s].completed_at = now]
            /\ pc' = [pc EXCEPT ![w] = "cs_check"]
            /\ local' = [local EXCEPT ![w] =
                   [NoLocal EXCEPT !.mission_id = steps[s].mission_id, !.i = s]]
            /\ UNCHANGED lastCall
       ELSE /\ UNCHANGED << steps, pc, local >>
            /\ lastCall' = [NoCall EXCEPT !.op = "complete_step",
                                          !.step = s, !.ret = "False"]
    /\ UNCHANGED << proposals, missions, nextMission, nextStep, lock, txn, now,
                    claimTrue, completeTrue >>

\* return True
cs_return(w) ==
    /\ pc' = [pc EXCEPT ![w] = "idle"]
    /\ local' = [local EXCEPT ![w] = NoLocal]
    /\ completeTrue' = [completeTrue EXCEPT ![local[w].i] = Count(@)]
    /\ lastCall' = [NoCall EXCEPT !.op = "complete_step",
                                  !.step = local[w].i,
                                  !.ret = "True"]

\* pending = SELECT COUNT(*) ...; "if pending == 0" (else: return True)
cs_check(w) ==
    /\ pc[w] = "cs_check"
    /\ IF PendingCount(local[w].mission_id) = 0
       THEN /\ pc' = [pc EXCEPT ![w] = "cs_mission"]
            /\ UNCHANGED << local, lastCall, completeTrue >>
       ELSE cs_return(w)
    /\ UNCHANGED << proposals, missions, steps, nextMission, nextStep, lock,
                    txn, now, claimTrue >>

\* a mission update that stores the status of the caller's own step
cs_update_mission_own_status(w) ==
    /\ pc[w] = "cs_mission"
    /\ LET m == local[w].mission_id IN
       missions' = [missions EXCEPT ![m].status = steps[local[w].i].status,
                                    ![m].completed_at = now]
    /\ cs_return(w)
    /\ UNCHANGED << proposals, steps, nextMission, nextStep, lock, txn, now,
                    claimTrue >>

\* UPDATE ops_missions SET status = 'succeeded', completed_at = NOW()
\* WHERE id = %s; return True
cs_update_mission(w) ==
    /\ pc[w] = "cs_mission"
    /\ LET m == local[w].mission_id IN
       missions' = [missions EXCEPT ![m].status = DoneStatus(m),
                                    ![m].completed_at = now]
    /\ cs_return(w)
    /\ UNCHANGED << proposals, steps, nextMission, nextStep, lock, txn, now,
                    claimTrue >>

complete_step_with(w, args) ==
    \/ \E s \in StepIds, a \in args :
           cs_update_step(w, s, a[1], a[2])
    \/ cs_check(w)
    \/ cs_update_mission(w)

complete_step(w) == complete_step_with(w, CompleteArgs)

\* the caller of complete_step stops between two of its statements: the
\* statements it has executed stay committed, the rest never run
cs_stop(w) ==
    /\ pc[w] \in {"cs_check", "cs_mission"}
    /\ pc' = [pc EXCEPT ![w] = "idle"]
    /\ local' = [local EXCEPT ![w] = NoLocal]
    /\ UNCHANGED << proposals, missions, steps, nextMission, nextStep, lock,
                    txn, now, lastCall, claimTrue, completeTrue >>

(* --------------------------- specification ---------------------------- *)
\* The helpers of Spec store NOW() and never read it back, so Spec
\* lets them run at one instant of the clock; SpecClock lets the clock advance.
Next ==
    /\ \/ \E w \in Workers : create_mission_from_proposal(w)
       \/ \E w \in Workers, s \in StepIds, a \in Workers : claim_step(w, s, a)
       \/ \E w \in Workers : complete_step(w)
    /\ UNCHANGED aux

Spec == Init /\ [][Next]_vars

NextClock == Next \/ (Tick /\ UNCHANGED aux)

SpecClock == Init /\ [][NextClock]_vars

\* one worker compiles proposals; both claim steps for themselves and
\* complete them, and may stop half way through complete_step
NextStop ==
    /\ \/ create_mission_from_proposal("sage")
       \/ \E w \in Workers, s \in StepIds : claim_step(w, s, w)
       \/ \E w \in Workers :
              complete_step_with(w, { <<"{ok}", NULL>>, <<NULL, "boom">> })
       \/ \E w \in Workers : cs_stop(w)
    /\ UNCHANGED aux

SpecStop == Init /\ [][NextStop]_vars

(* -------------------------- get_queued_steps -------------------------- *)
\* the WHERE clause without the deadline test
QueuedWhereNoDeadline(s, kind) ==
    /\ steps[s].mission_id \in DOMAIN missions
    /\ steps[s].status = "queued"
    /\ kind \notin {NULL, ""} => steps[s].kind = kind

\* FROM ops_mission_steps s JOIN ops_missions m ON s.mission_id = m.id
\* WHERE s.status = 'queued' AND s.timeout_at > NOW()
\* and, "if kind:", AND s.kind = %s
QueuedWhere(s, kind) ==
    /\ steps[s].mission_id \in DOMAIN missions
    /\ steps[s].status = "queued"
    /\ steps[s].timeout_at > now
    /\ kind \notin {NULL, ""} => steps[s].kind = kind

\* LIMIT %s
Limit(rows, limit) ==
    IF Len(rows) <= limit THEN rows ELSE SubSeq(rows, 1, limit)

\* the rows the query returns
QueuedRows(kind, limit) ==
    Limit(ByCreatedAt(steps, {s \in DOMAIN steps : QueuedWhere(s, kind)}), limit)

KindArgs == {NULL, "", "analyze", "execute_trade"}

\* limit: int = 5
DefaultLimit == 5

LimitArgs == {1, DefaultLimit}

get_queued_steps(w, kind, limit) ==
    /\ pc[w] = "idle"
    /\ lastCall' = [NoCall EXCEPT !.op = "get_queued_steps", !.ret = "rows"]
    /\ queued' = [limit |-> limit, rows |-> QueuedRows(kind, limit)]
    /\ UNCHANGED << proposals, missions, steps, nextMission, nextStep, lock,
                    txn, pc, local, now, claimTrue, completeTrue, rules,
                    triggered, checked >>

\* one worker compiles proposals, another polls the queue and claims steps,
\* while the clock advances
NextQueue ==
    \/ Tick /\ UNCHANGED aux
    \/ create_mission_from_proposal("sage") /\ UNCHANGED aux
    \/ (\E s \in StepIds : claim_step("scout", s, "scout")) /\ UNCHANGED aux
    \/ \E kind \in KindArgs, limit \in LimitArgs :
           get_queued_steps("scout", kind, limit)

SpecQueue == Init /\ [][NextQueue]_vars

(* -------------------------- _check_conditions ------------------------- *)
\* keys of an event and of a condition tree, the numbers they carry, and the
\* operators the checker knows
Keys == {"price", "volume"}
Values == 0 .. MaxValue
Ops == {"$gt", "$lt", "$eq"}

\* partial functions from a set into another
Partial(S, T) == UNION {[D -> T] : D \in SUBSET S}

\* event_data: Dict
Events == Partial(Keys, Values)

\* a condition is a literal or an operator mapping (isinstance(condition, dict))
Literals == [type : {"literal"}, value : Values, ops : {<< >>}]
OpMaps == [type : {"dict"}, value : {0}, ops : Partial(Ops, Values)]

\* conditions: Dict
Conditions == Partial(Keys, Literals \cup OpMaps)

RECURSIVE OpsHoldLoose(_, _, _)
\* an operator loop whose $gt accepts an equal value
OpsHoldLoose(x, ops, todo) ==
    IF todo = {} THEN TRUE
    ELSE LET op == CHOOSE o \in todo : TRUE IN
         IF op = "$gt" /\ x < ops[op] THEN FALSE
         ELSE IF op = "$lt" /\ x >= ops[op] THEN FALSE
         ELSE IF op = "$eq" /\ x # ops[op] THEN FALSE
         ELSE OpsHoldLoose(x, ops, todo \ {op})

RECURSIVE OpsHold(_, _, _)
\* for op, value in condition.items(): return False at the first operator
\* that fails; todo is what the loop has not visited yet
OpsHold(x, ops, todo) ==
    IF todo = {} THEN TRUE
    ELSE LET op == CHOOSE o \in todo : TRUE IN
         IF op = "$gt" /\ x <= ops[op] THEN FALSE
         ELSE IF op = "$lt" /\ x >= ops[op] THEN FALSE
         ELSE IF op = "$eq" /\ x # ops[op] THEN FALSE
         ELSE OpsHold(x, ops, todo \ {op})

RECURSIVE KeysHold(_, _, _)
\* for key, condition in conditions.items(): if key in event_data: ...
KeysHold(event_data, conditions, todo) ==
    IF todo = {} THEN TRUE
    ELSE LET key == CHOOSE k \in todo : TRUE
             condition == conditions[key]
         IN IF key \in DOMAIN event_data
            THEN IF condition.type = "dict"
                 THEN IF OpsHold(event_data[key], condition.ops,
                                 DOMAIN condition.ops)
                      THEN KeysHold(event_data, conditions, todo \ {key})
                      ELSE FALSE
                 ELSE IF event_data[key] # condition.value
                      THEN FALSE
                      ELSE KeysHold(event_data, conditions, todo \ {key})
            ELSE KeysHold(event_data, conditions, todo \ {key})

_check_conditions(event_data, conditions) ==
    KeysHold(event_data, conditions, DOMAIN conditions)

\* the call _check_conditions(checked.event, checked.conditions) returns
check_conditions_call ==
    /\ checked.result = NULL
    /\ checked' = [checked EXCEPT !.result =
           IF _check_conditions(checked.event, checked.conditions)
           THEN "True" ELSE "False"]
    /\ UNCHANGED << pipeline, queued, rules, triggered >>

\* no mission pipeline: the condition checker alone, on every pair of
\* arguments
InitConditions ==
    /\ InitPipeline
    /\ \A p \in Proposals : proposals[p].status = "absent"
    /\ queued = NoQuery
    /\ rules = << >>
    /\ triggered = NoEval
    /\ checked \in [event : Events, conditions : Conditions, result : {NULL}]

NextConditions == check_conditions_call

SpecConditions == InitConditions /\ [][NextConditions]_vars

(* -------------------------- evaluate_triggers ------------------------- *)
RuleIds == {1, 2}
EventTypes == {"price_alert", "volume_spike"}

\* cooldown_minutes of a rule
Cooldowns == 0 .. MaxMinute - 1

\* json.loads(trigger['conditions'])
RuleConditions ==
    { << >>,
      [k \in {"price"} |->
          [type |-> "dict", value |-> 0, ops |-> [o \in {"$gt"} |-> 0]]] }

\* event_data: the 'event_type' entry (NULL when the key is missing) and the
\* other entries
TriggerEvents ==
    [event_type : EventTypes \cup {NULL},
     data : { [k \in {"price"} |-> 0], [k \in {"price"} |-> MaxValue] }]

\* a cooldown test that lets a rule through at the last instant of its window
OffCooldownLoose(r) ==
    \/ rules[r].last_fired_at = NoTime
    \/ rules[r].last_fired_at <= now - rules[r].cooldown_minutes

\* tr.last_fired_at IS NULL OR
\* tr.last_fired_at < NOW() - INTERVAL '1 minute' * tr.cooldown_minutes
OffCooldown(r) ==
    \/ rules[r].last_fired_at = NoTime
    \/ rules[r].last_fired_at < now - rules[r].cooldown_minutes

\* WHERE tr.enabled = true AND (...) AND tr.trigger_event = %s, with the
\* parameter event_data.get('event_type'); a NULL parameter equals nothing
TriggerWhere(r, event_data) ==
    /\ rules[r].enabled
    /\ OffCooldown(r)
    /\ event_data.event_type # NULL
    /\ rules[r].trigger_event = event_data.event_type

\* the rows of the query that pass _check_conditions
MatchingTriggers(event_data) ==
    {r \in DOMAIN rules :
        /\ TriggerWhere(r, event_data)
        /\ _check_conditions(event_data.data, rules[r].conditions)}

evaluate_triggers(event_data) ==
    /\ triggered' = [event |-> event_data, at |-> now,
                     rules |-> MatchingTriggers(event_data)]
    /\ UNCHANGED << pipeline, queued, rules, checked >>

\* the caller acts on a rule evaluate_triggers returned and stamps it
fire_trigger(r) ==
    /\ r \in triggered.rules
    /\ rules' = [rules EXCEPT ![r].last_fired_at = now]
    /\ triggered' = NoEval
    /\ UNCHANGED << pipeline, queued, checked >>

\* no mission pipeline: rules that have not fired yet, events, and the clock
InitTriggers ==
    /\ InitPipeline
    /\ \A p \in Proposals : proposals[p].status = "absent"
    /\ queued = NoQuery
    /\ rules \in [RuleIds -> [enabled : BOOLEAN,
                              trigger_event : EventTypes,
                              cooldown_minutes : Cooldowns,
                              last_fired_at : {NoTime},
                              conditions : RuleConditions]]
    /\ triggered = NoEval
    /\ checked = NoCheck

NextTriggers ==
    \/ TickUpTo(MaxMinute) /\ UNCHANGED aux
    \/ \E event_data \in TriggerEvents : evaluate_triggers(event_data)
    \/ \E r \in RuleIds : fire_trigger(r)

SpecTriggers == InitTriggers /\ [][NextTriggers]_vars

(* ------------------------------ claims -------------------------------- *)
Terminal == {"succeeded", "failed"}

\* a complete_step call on step s has passed its step update and not returned
InFlight(s) == \E w \in Workers : pc[w] \in {"cs_check", "cs_mission"} /\ local[w].i = s

\* at most one True per step, and a True exactly when the step has left queued
C1_ClaimOnce ==
    \A s \in StepIds :
        /\ claimTrue[s] <= 1
        /\ s \in DOMAIN steps => (steps[s].status = "queued" <=> claimTrue[s] = 0)

\* a call returns True exactly when the step is queued at the moment it runs
C1_ClaimStep ==
    \A w \in Workers, s \in StepIds, a \in Workers :
        claim_step(w, s, a) =>
            /\ lastCall'.op = "claim_step" /\ lastCall'.step = s
            /\ lastCall'.ret = "True" <=>
                   (s \in DOMAIN steps /\ steps[s].status = "queued")

\* C1: for every step, at most one claim_step call ever returns True, a step
\* has left queued exactly when one call has returned True, and a claim_step
\* call returns True exactly when the step exists and is queued at the moment
\* of the call -- so of any number of racing claims on a queued step exactly
\* one wins and every later one returns False.
C1_ExactlyOneClaimWins == [] C1_ClaimOnce /\ [][C1_ClaimStep]_vars

\* a claim on a step that another caller holds (running) has returned False
C1_LoserSeen ==
    \E s \in DOMAIN steps :
        /\ steps[s].status = "running"
        /\ claimTrue[s] = 1
        /\ lastCall = [op |-> "claim_step", step |-> s, ret |-> "False"]

\* at most one True per step; exactly one once the step is completed and the
\* completing call has returned
C2_CompleteOnce ==
    \A s \in StepIds :
        /\ completeTrue[s] <= 1
        /\ s \in DOMAIN steps =>
               /\ steps[s].status \notin Terminal => completeTrue[s] = 0
               /\ (steps[s].status \in Terminal /\ ~InFlight(s)) => completeTrue[s] = 1

\* a call on a step that is not running returns False and writes nothing
C2_NotRunningIsNoOp ==
    \A w \in Workers, s \in StepIds, a \in CompleteArgs :
        (/\ cs_update_step(w, s, a[1], a[2])
         /\ ~(s \in DOMAIN steps /\ steps[s].status = "running")) =>
            /\ lastCall' = [op |-> "complete_step", step |-> s, ret |-> "False"]
            /\ pc'[w] = "idle"
            /\ UNCHANGED << steps, missions >>

\* C2: for every step, at most one complete_step call returns True; once the
\* step is succeeded or failed and no call on it is still running, exactly one
\* has; and a complete_step call on a step that is not running returns False
\* at once and changes no step row and no mission row.
C2_CompleteAtMostOnce == [] C2_CompleteOnce /\ [][C2_NotRunningIsNoOp]_vars

\* a second complete_step on an already completed step has returned False
C2_DuplicateSeen ==
    \E s \in DOMAIN steps :
        /\ steps[s].status \in Terminal
        /\ completeTrue[s] = 1
        /\ lastCall = [op |-> "complete_step", step |-> s, ret |-> "False"]

\* the status changes one transition may make
C3_StepTransition ==
    /\ DOMAIN steps \subseteq DOMAIN steps'
    /\ \A s \in DOMAIN steps' :
           IF s \in DOMAIN steps
           THEN \/ steps'[s].status = steps[s].status
                \/ steps[s].status = "queued" /\ steps'[s].status = "running"
                \/ steps[s].status = "running" /\ steps'[s].status \in Terminal
           ELSE steps'[s].status = "queued"

\* C3: in every step of the system a step row keeps its status or moves
\* queued -> running or running -> succeeded/failed; a new row starts queued
\* and no row disappears.
C3_StepStatusMonotonic == [][C3_StepTransition]_vars

\* a step has gone all the way while a later one is still queued
C3_LifecycleSeen ==
    \E s, q \in DOMAIN steps :
        /\ steps[s].status = "failed"
        /\ claimTrue[s] = 1 /\ completeTrue[s] = 1
        /\ steps[q].status = "queued"

\* every step of mission m has been claimed and completed by a call that has
\* returned True
AllReturned(m) ==
    \A s \in StepsOf(m) :
        /\ steps[s].status \in Terminal
        /\ claimTrue[s] = 1 /\ completeTrue[s] = 1

\* C4: a mission with at least one step, all of whose steps have been claimed
\* and completed without error by complete_step calls that have returned True,
\* has status succeeded, whatever the interleaving of the calls.
C4_AllSucceededThenMissionSucceeded ==
    \A m \in DOMAIN missions :
        (/\ StepsOf(m) # {}
         /\ AllReturned(m)
         /\ \A s \in StepsOf(m) :
                steps[s].status = "succeeded" /\ steps[s].error = NULL)
        => missions[m].status = "succeeded"

\* a mission of two steps, both completed without error, is succeeded
C4_TwoStepMissionDone ==
    \E m \in DOMAIN missions :
        /\ Cardinality(StepsOf(m)) = 2
        /\ AllReturned(m)
        /\ \A s \in StepsOf(m) : steps[s].status = "succeeded" /\ steps[s].error = NULL
        /\ missions[m].status = "succeeded"

\* C5: a mission with a failed step, none of whose steps is queued or running
\* and all of whose complete_step calls have returned, has status failed.
C5_FailedStepThenMissionFailed ==
    \A m \in DOMAIN missions :
        (/\ \E s \in StepsOf(m) : steps[s].status = "failed"
         /\ AllReturned(m))
        => missions[m].status = "failed"

\* C6: a mission whose status is succeeded has no failed step.
C6_SucceededHasNoFailedStep ==
    \A m \in DOMAIN missions :
        missions[m].status = "succeeded" =>
            \A s \in StepsOf(m) : steps[s].status # "failed"

\* C7: a mission whose status is succeeded has no queued or running step, and
\* the mission of an open compile transaction is not a row any caller can see
\* (so it is not succeeded).
C7_SucceededHasNoPendingStep ==
    /\ \A m \in DOMAIN missions :
           missions[m].status = "succeeded" =>
               \A s \in StepsOf(m) : steps[s].status \notin {"queued", "running"}
    /\ \A w \in Workers :
           /\ DOMAIN txn[w].missions \cap DOMAIN missions = {}
           /\ DOMAIN txn[w].steps \cap DOMAIN steps = {}

\* a mission is succeeded while a compile transaction is inserting steps
C7_SucceededDuringCompile ==
    \E m \in DOMAIN missions, w \in Workers :
        /\ missions[m].status = "succeeded"
        /\ StepsOf(m) # {}
        /\ pc[w] = "cm_steps"
        /\ DOMAIN txn[w].steps # {}

\* what a transition of a compile call on a proposal that is not accepted does
C8_CompileStep ==
    \A w \in Workers, p \in Proposals :
        (/\ proposals[p].status # "accepted"
         /\ \/ cm_begin(w, p)
            \/ local[w].proposal_id = p /\ create_mission_from_proposal(w))
        => /\ UNCHANGED tables
           /\ pc[w] # "idle" =>
                  /\ pc[w] = "cm_select"
                  /\ pc'[w] = "idle"
                  /\ lastCall'.op = "create_mission_from_proposal"
                  /\ lastCall'.ret \in {"ValueError", "StorageError"}

\* C8: while the proposal is not accepted (pending, rejected or absent), every
\* step of a create_mission_from_proposal call on it leaves the proposal,
\* mission and step tables as they were, and the call ends at its SELECT by
\* raising (ValueError, or the storage error of a failed statement).
C8_NotAcceptedRaises == [][C8_CompileStep]_vars

\* a compile of a pending or rejected proposal has raised ValueError
C8_ValueErrorSeen ==
    /\ lastCall = [op |-> "create_mission_from_proposal", step |-> 0,
                   ret |-> "ValueError"]
    /\ \E p \in Proposals : proposals[p].status \in {"pending", "rejected"}
    /\ missions = << >> /\ steps = << >>

\* the steps of mission m among the rows of table f
StepsIn(f, m) == {s \in DOMAIN f : f[s].mission_id = m}

\* what a transition of a compile call does to the committed tables
C9_CompileStep ==
    \A w \in Workers :
        create_mission_from_proposal(w) =>
            IF cm_commit(w)
            THEN LET m == local[w].mission_id IN
                 /\ m \notin DOMAIN missions
                 /\ DOMAIN missions' = DOMAIN missions \cup {m}
                 /\ StepsIn(steps, m) = {}
                 /\ Cardinality(StepsIn(steps', m)) = Len(local[w].proposed_steps)
                 /\ DOMAIN steps' = DOMAIN steps \cup StepsIn(steps', m)
                 /\ lastCall'.ret = "mission_id"
            ELSE UNCHANGED tables

\* a visible mission has all of its steps, a visible step has its mission
C9_Visible ==
    /\ \A m \in DOMAIN missions :
           Cardinality(StepsOf(m)) =
               Len(proposals[missions[m].proposal_id].proposed_steps)
    /\ \A s \in DOMAIN steps : steps[s].mission_id \in DOMAIN missions

\* C9: the committed tables change through create_mission_from_proposal at
\* its COMMIT alone, which adds the mission together with one step per
\* template; a failing statement leaves all three tables as they were.  So
\* every mission a caller can see has all of its steps, and every step a
\* caller can see belongs to a mission it can see.
C9_AllOrNothing == [] C9_Visible /\ [][C9_CompileStep]_vars

\* a transaction that had inserted its mission and a step was rolled back,
\* and no row of it is in the tables
C9_RolledBackSeen ==
    /\ lastCall = [op |-> "create_mission_from_proposal", step |-> 0,
                   ret |-> "StorageError"]
    /\ nextMission > 1 /\ nextStep > 1
    /\ missions = << >> /\ steps = << >>

\* C10: at most one mission references a given proposal.
C10_OneMissionPerProposal ==
    \A m1, m2 \in DOMAIN missions :
        missions[m1].proposal_id = missions[m2].proposal_id => m1 = m2

\* what a claim_step call on a step that is not queued does
C14_ClaimStep ==
    \A w \in Workers, s \in StepIds, a \in Workers :
        (/\ claim_step(w, s, a)
         /\ ~(s \in DOMAIN steps /\ steps[s].status = "queued")) =>
            /\ lastCall' = [op |-> "claim_step", step |-> s, ret |-> "False"]
            /\ pc' = pc
            /\ steps' = steps

\* C14: a claim_step call on a step that does not exist or is not queued
\* returns False (it does not raise) and leaves every step row, with its
\* status, assignee and start time, as it was.
C14_ClaimOfUnqueuedIsNoOp == [][C14_ClaimStep]_vars

\* a claim on a running or completed step has returned False, the row still
\* names the assignee of the claim that won, and some step id has no row
C14_RefusedSeen ==
    \E s \in DOMAIN steps, a \in Workers :
        /\ steps[s].status \in {"running", "succeeded", "failed"}
        /\ steps[s].assigned_to = a
        /\ lastCall = [op |-> "claim_step", step |-> s, ret |-> "False"]
        /\ \E t \in StepIds : t \notin DOMAIN steps

\* the status changes of mission rows one transition may make
C15_MissionTransition ==
    /\ DOMAIN missions \subseteq DOMAIN missions'
    /\ \A m \in DOMAIN missions :
           \/ missions'[m].status = missions[m].status
           \/ missions[m].status = "running" /\ missions'[m].status \in Terminal

\* C15: in every transition a mission row keeps its status or moves from
\* running to succeeded or failed; a succeeded or failed mission never changes
\* status again, and no mission row disappears.
C15_MissionStatusMonotonic == [][C15_MissionTransition]_vars

\* a mission is already succeeded while a second completer of it is about to
\* run its own mission update
C15_RedundantUpdateSeen ==
    \E m \in DOMAIN missions, w \in Workers :
        /\ missions[m].status = "succeeded"
        /\ pc[w] = "cs_mission"
        /\ local[w].mission_id = m

\* C16: a completed step is succeeded when the error argument of its
\* complete_step call was absent (None) and failed when an error argument was
\* passed, the empty message included.
C16_StatusFollowsError ==
    \A s \in DOMAIN steps :
        /\ steps[s].status = "succeeded" => steps[s].error = NULL
        /\ steps[s].status = "failed" => steps[s].error # NULL

C17_Commit ==
    \A w \in Workers :
        cm_commit(w) =>
            LET m == local[w].mission_id
                p == local[w].proposal_id
                tpl == proposals[p].proposed_steps
                new == ByCreatedAt(steps', {s \in DOMAIN steps' : steps'[s].mission_id = m})
            IN /\ DOMAIN missions' \ DOMAIN missions = {m}
               /\ missions'[m].status = "running"
               /\ missions'[m].proposal_id = p
               /\ DOMAIN steps' \ DOMAIN steps = {new[i] : i \in 1 .. Len(new)}
               /\ Len(new) = Len(tpl)
               /\ \A i \in 1 .. Len(new) :
                      /\ steps'[new[i]].status = "queued"
                      /\ steps'[new[i]].kind =
                             IF tpl[i].kind = NULL THEN "analyze" ELSE tpl[i].kind
                      /\ steps'[new[i]].assigned_to = tpl[i].assigned_to

C11_Query ==
    \A w \in Workers, kind \in KindArgs :
        get_queued_steps(w, kind, queued'.limit) =>
            LET r == queued'.rows
                limit == queued'.limit
                given == kind \notin {NULL, ""}
                Eligible(s) == /\ steps[s].status = "queued"
                               /\ steps[s].timeout_at > now
                               /\ given => steps[s].kind = kind
            IN /\ \A i \in 1 .. Len(r) : r[i] \in DOMAIN steps /\ Eligible(r[i])
               /\ \A i, j \in 1 .. Len(r) :
                      i < j => /\ r[i] # r[j]
                               /\ steps[r[i]].created_at <= steps[r[j]].created_at
               /\ Len(r) <= limit
               /\ \A e \in DOMAIN steps :
                      (/\ Eligible(e)
                       /\ \E i \in 1 .. Len(r) :
                              steps[e].created_at < steps[r[i]].created_at)
                          => \E i \in 1 .. Len(r) : r[i] = e
               /\ tables' = tables

\* C11: get_queued_steps(kind, limit) returns only steps that are queued,
\* whose deadline is strictly after the time of the query and, when a kind
\* is given, whose kind equals it; the rows are in ascending creation order,
\* there are at most limit of them, and no eligible step older than a
\* returned one is left out.
C11_OldestEligibleInOrder == [][C11_Query]_vars

\* a query has just returned the younger of two queued steps of one kind
\* alone: the older one is past its deadline
C11_ExpiredLeftOutSeen ==
    \E s, u \in DOMAIN steps :
        /\ lastCall.op = "get_queued_steps"
        /\ queued.rows = << u >>
        /\ queued.limit > 1
        /\ steps[s].status = "queued" /\ steps[u].status = "queued"
        /\ steps[s].kind = steps[u].kind
        /\ steps[s].created_at < steps[u].created_at
        /\ steps[s].timeout_at <= now

\* a claim of a queued step whose deadline has passed
C18_ClaimStep ==
    \A w \in Workers, s \in StepIds, a \in Workers :
        (/\ claim_step(w, s, a)
         /\ s \in DOMAIN steps
         /\ steps[s].status = "queued"
         /\ steps[s].timeout_at <= now) =>
            /\ \A kind \in KindArgs, limit \in LimitArgs :
                   \A i \in 1 .. Len(QueuedRows(kind, limit)) :
                       QueuedRows(kind, limit)[i] # s
            /\ steps'[s].status = "running"
            /\ steps'[s].assigned_to = a
            /\ steps'[s].started_at = now
            /\ lastCall' = [op |-> "claim_step", step |-> s, ret |-> "True"]

\* C18: claim_step does not look at the deadline: a queued step whose
\* deadline has passed, which no get_queued_steps call returns any more, is
\* still moved to running by a claim_step call on its id, and the call
\* returns True.
C18_ExpiredStepIsClaimed == [][C18_ClaimStep]_vars

\* a step is running that was claimed at or after its deadline
C18_LateClaimSeen ==
    \E s \in DOMAIN steps :
        /\ steps[s].status = "running"
        /\ steps[s].started_at >= steps[s].timeout_at
        /\ lastCall = [op |-> "claim_step", step |-> s, ret |-> "True"]

\* every step of mission m is succeeded or failed, the mission is still
\* running, and no complete_step call on it is under way
C19_Stranded(m) ==
    /\ missions[m].status = "running"
    /\ StepsOf(m) # {}
    /\ \A s \in StepsOf(m) : steps[s].status \in Terminal
    /\ \A w \in Workers :
           pc[w] \in {"cs_check", "cs_mission"} => local[w].mission_id # m

C19_Step ==
    /\ \A m \in DOMAIN missions :
           C19_Stranded(m) =>
               /\ missions'[m].status = "running"
               /\ \A s \in StepsOf(m) : steps'[s].status = steps[s].status
               /\ \A w \in Workers :
                      pc'[w] \in {"cs_check", "cs_mission"}
                          => local'[w].mission_id # m
    /\ \A w \in Workers, s \in StepIds, a \in CompleteArgs :
           (~CompleteMatches(s) /\ cs_update_step(w, s, a[1], a[2])) =>
               /\ missions' = missions
               /\ pc' = pc
               /\ lastCall' = [op |-> "complete_step", step |-> s,
                               ret |-> "False"]

\* C19: complete_step updates the step and the mission in separate
\* statements, and a call that returns False goes no further than its step
\* update; once all steps of a running mission are succeeded or failed and
\* no complete_step call on it is under way, no later claim_step or
\* complete_step call moves the mission out of running.
C19_StrandedMissionStaysRunning == [][C19_Step]_vars

\* a caller stopped after completing the last pending step: the mission is
\* stranded, and a later complete_step call on that step has returned False
C19_StrandedSeen ==
    \E m \in DOMAIN missions :
        /\ C19_Stranded(m)
        /\ lastCall.op = "complete_step"
        /\ lastCall.step \in StepsOf(m)
        /\ lastCall.ret = "False"
        /\ completeTrue[lastCall.step] = 0

\* what the claim says of one condition against the event's value x
C13_ConditionHolds(x, condition) ==
    IF condition.type = "literal"
    THEN x = condition.value
    ELSE /\ "$gt" \in DOMAIN condition.ops => x > condition.ops["$gt"]
         /\ "$lt" \in DOMAIN condition.ops => x < condition.ops["$lt"]
         /\ "$eq" \in DOMAIN condition.ops => x = condition.ops["$eq"]

\* C13: _check_conditions(event, conditions) returns true exactly when, for
\* every condition key present in the event, a literal condition equals the
\* event's value and every operator of an operator mapping holds ($gt
\* strictly greater, $lt strictly less, $eq equal); condition keys absent
\* from the event are skipped.
C13_TrueIffAllPresentKeysHold ==
    checked.result # NULL =>
        (checked.result = "True" <=>
            \A key \in DOMAIN checked.conditions :
                key \in DOMAIN checked.event =>
                    C13_ConditionHolds(checked.event[key],
                                       checked.conditions[key]))

\* the checker returned true on conditions with a key the event lacks, and
\* with an operator mapping of $gt and $lt on a key the event has
C13_AbsentKeySkippedSeen ==
    \E key, other \in DOMAIN checked.conditions :
        /\ checked.result = "True"
        /\ key \notin DOMAIN checked.event
        /\ other \in DOMAIN checked.event
        /\ checked.conditions[other].type = "dict"
        /\ DOMAIN checked.conditions[other].ops = {"$gt", "$lt"}

\* what one evaluate_triggers call returns, against the rules it reads
C12_Evaluate ==
    \A event_data \in TriggerEvents :
        evaluate_triggers(event_data) =>
            \A r \in DOMAIN rules :
                LET fired == rules[r].last_fired_at
                    window == rules[r].cooldown_minutes
                    returned == r \in triggered'.rules
                    matching ==
                        /\ rules[r].enabled
                        /\ rules[r].trigger_event = event_data.event_type
                        /\ _check_conditions(event_data.data,
                                             rules[r].conditions)
                IN /\ returned =>
                          /\ rules[r].enabled
                          /\ rules[r].trigger_event = event_data.event_type
                          /\ fired = NoTime \/ fired < now - window
                   /\ (fired # NoTime /\ fired >= now - window) => ~returned
                   /\ (matching /\ fired # NoTime /\ fired < now - window)
                          => returned
                   /\ rules' = rules

\* C12: evaluate_triggers returns a rule only if it is enabled, its trigger
\* event equals the event's type and its last_fired_at is null or older than
\* now minus its cooldown; a rule whose last_fired_at lies within its
\* cooldown window is never returned, and a rule that has fired is returned
\* again for a matching event once the window has elapsed.
C12_ReturnedOnlyOffCooldown == [][C12_Evaluate]_vars

\* a rule with a cooldown that has fired before is returned again, its window
\* over
C12_ReturnedAgainSeen ==
    \E r \in DOMAIN rules :
        /\ r \in triggered.rules
        /\ triggered.at = now
        /\ rules[r].cooldown_minutes > 0
        /\ rules[r].last_fired_at # NoTime
        /\ rules[r].last_fired_at + rules[r].cooldown_minutes < now

====
